---------------------------- MODULE Spec2Model ----------------------------
(***************************************************************************)
(* Model of dso-html-comment-remover (src/main.py).                        *)
(*                                                                         *)
(* Text is a sequence of one-character strings.  remove_html_comments is   *)
(* the regular-expression substitution of main.py:28-50, computed the way  *)
(* re.sub computes it: leftmost match first, lazy quantifiers, `.` matching *)
(* every character (re.DOTALL), matches never overlapping.                 *)
(***************************************************************************)
EXTENDS Integers, Sequences, FiniteSets, TLC

VARIABLES
    \* remove_html_comments applied to one text
    content,          \* the input text
    specific_string,  \* the filter (-s), <<>> when absent or empty
    out,              \* remove_html_comments(content, specific_string)
    out2,             \* remove_html_comments(out, specific_string)
    phase,            \* "input", "stripped", "restripped"; "off" in a run of main
    \* a run of main
    fs,               \* the file system: path -> [kind, text]
    fs0,              \* the file system when main started
    faults,           \* what the environment refuses: a set of <<path, kind>>
    path,             \* args.path
    recursive,        \* args.recursive
    output_dir,       \* args.output, NoDir when absent
    encoding,         \* args.encoding, NoEnc when absent
    pc,               \* where main is: "main", "dispatch", "walk", "files", "exit"
    exit_code,        \* the process exit status once pc = "exit"
    pending,          \* os.walk: directories still to visit, next first
    root,             \* os.walk: the directory being visited
    output_subdir,    \* process_directory: where this level's results go
    todo,             \* names of `files` the inner loop has not reached yet
    subdirs,          \* os.walk: subdirectories listed in root
    log,              \* logging records emitted: <<level, message, path>>
    results           \* process_file calls made: [src, status, dest, wrote]

svars == <<content, out, out2, phase>>
dvars == <<fs, fs0, faults, path, recursive, output_dir, encoding, pc, exit_code,
           pending, root, output_subdir, todo, subdirs, log, results>>
vars == <<svars, specific_string, dvars>>

-----------------------------------------------------------------------------
(* Bounds of the checked input sets. *)

\* Longest content, counted in tokens of Tokens.
MaxTokens == 6

-----------------------------------------------------------------------------
(* Text helpers. *)

OPEN == <<"<", "!", "-", "-">>
CLOSE == <<"-", "-", ">">>

\* pat occurs in s at index i (1-based).
OccursAt(s, pat, i) ==
    /\ i >= 1
    /\ i + Len(pat) - 1 <= Len(s)
    /\ \A k \in 1..Len(pat) : s[i + k - 1] = pat[k]

\* Least index >= from at which pat occurs in s; 0 when there is none.
Find(s, pat, from) ==
    LET hits == {i \in from..(Len(s) - Len(pat) + 1) : OccursAt(s, pat, i)}
    IN  IF hits = {} THEN 0 ELSE CHOOSE i \in hits : \A j \in hits : i <= j

Contains(s, pat) == Find(s, pat, 1) # 0

\* s[i..j], empty when j < i.
Slice(s, i, j) == IF j < i THEN <<>> ELSE SubSeq(s, i, j)

-----------------------------------------------------------------------------
(* remove_html_comments, main.py:28-50. *)

\* Faulty variant: the closing marker taken one character short, so its ">" survives.
MatchEnd_ShortClose(s, i, f) ==
    IF ~OccursAt(s, OPEN, i) THEN 0
    ELSE IF f = <<>>
         THEN LET q == Find(s, CLOSE, i + 4)
              IN  IF q = 0 THEN 0 ELSE q + 2
         ELSE LET p == Find(s, f, i + 4)
                  q == IF p = 0 THEN 0 ELSE Find(s, CLOSE, p + Len(f))
              IN  IF q = 0 THEN 0 ELSE q + 2

\* Faulty variant: greedy quantifiers, <!--.*-->, which run to the last closing marker.
MatchEnd_Greedy(s, i, f) ==
    LET last == {q \in (i + 4)..Len(s) :
                    /\ OccursAt(s, CLOSE, q)
                    /\ f # <<>> => \E p \in (i + 4)..q : OccursAt(s, f, p) /\ p + Len(f) <= q}
    IN  IF ~OccursAt(s, OPEN, i) \/ last = {} THEN 0
        ELSE (CHOOSE q \in last : \A r \in last : r <= q) + 3

\* Index just past the match of the compiled pattern that starts at i, 0 when
\* the pattern does not match at i.  Unfiltered: <!--.*?-->.  Filtered:
\* <!--.*?F.*?--> with F escaped, so literal.
MatchEnd(s, i, f) ==
    IF ~OccursAt(s, OPEN, i) THEN 0
    ELSE IF f = <<>>
         THEN LET q == Find(s, CLOSE, i + 4)
              IN  IF q = 0 THEN 0 ELSE q + 3
         ELSE LET p == Find(s, f, i + 4)
                  q == IF p = 0 THEN 0 ELSE Find(s, CLOSE, p + Len(f))
              IN  IF q = 0 THEN 0 ELSE q + 3

\* The non-overlapping matches re.sub finds scanning s from pos, leftmost first,
\* each a pair <<first index, index just past the last>>.
RECURSIVE Matches(_, _, _)
Matches(s, f, pos) ==
    IF pos > Len(s) THEN {}
    ELSE LET e == MatchEnd(s, pos, f)
         IN  IF e = 0 THEN Matches(s, f, pos + 1)
             ELSE {<<pos, e>>} \cup Matches(s, f, e)

Covered(R, k) == \E r \in R : r[1] <= k /\ k < r[2]

\* s with the characters of every span of R replaced by "".
RECURSIVE RemoveFrom(_, _, _)
RemoveFrom(s, R, k) ==
    IF k > Len(s) THEN <<>>
    ELSE IF Covered(R, k) THEN RemoveFrom(s, R, k + 1)
         ELSE <<s[k]>> \o RemoveFrom(s, R, k + 1)

RemoveSpans(s, R) == RemoveFrom(s, R, 1)

\* pattern.sub("", content).  A specific_string of None or "" is falsy at
\* line 40 and selects the unfiltered pattern.
remove_html_comments(s, f) == RemoveSpans(s, Matches(s, f, 1))

-----------------------------------------------------------------------------
(* The file system a run of main works on.  A path is a sequence of names, *)
(* a name a sequence of characters.                                         *)

NoDir == <<>>
NoEnc == "none"

Dn == <<"d">>
Sn == <<"s">>
On == <<"o">>
Xn == <<"x">>
Fn == <<"f">>
AHtml == <<"a", ".", "h", "t", "m", "l">>
BTxt == <<"b", ".", "t", "x", "t">>
CHtm == <<"c", ".", "h", "t", "m">>
ETpl == <<"e", ".", "t", "p", "l">>

DirD == <<Dn>>
DirS == <<Dn, Sn>>
DirO == <<On>>
FileA == <<Dn, AHtml>>
FileB == <<Dn, BTxt>>
FileC == <<Dn, CHtm>>
FileSA == <<Dn, Sn, AHtml>>
FileE == <<ETpl>>

DirNode == [kind |-> "dir", text |-> <<>>]
OtherNode == [kind |-> "other", text |-> <<>>]
FileNode(t) == [kind |-> "file", text |-> t]

\* d/a.html "p<!--a-->", d/b.txt "<!--a-->", d/c.htm "<!---->q",
\* d/s/a.html "<!--a-->r", the empty file e.tpl, and f, which is neither a
\* file nor a directory.
InitialFs ==
    (DirD :> DirNode) @@ (DirS :> DirNode) @@ (<<Fn>> :> OtherNode)
    @@ (FileE :> FileNode(<<>>))
    @@ (FileA :> FileNode(<<"p">> \o OPEN \o <<"a">> \o CLOSE))
    @@ (FileB :> FileNode(OPEN \o <<"a">> \o CLOSE))
    @@ (FileC :> FileNode(OPEN \o CLOSE \o <<"q">>))
    @@ (FileSA :> FileNode(OPEN \o <<"a">> \o CLOSE \o <<"r">>))

\* What the environment can refuse.  "missing": a directory entry whose open
\* raises FileNotFoundError (a dangling link); "read": the open or the decoding
\* of the file raises; "open_w": opening the destination for writing raises;
\* "write": f.write raises after the open has truncated the destination;
\* "mkdir": creating the directory raises OSError; "list": listing the
\* directory raises, which os.walk (onerror=None) answers by skipping it.
FaultSites ==
    { <<FileC, "missing">>, <<FileA, "read">>, <<FileSA, "read">>,
      <<FileA, "open_w">>, <<DirO \o <<AHtml>>, "open_w">>,
      <<FileA, "write">>, <<DirO \o <<AHtml>>, "write">>,
      <<DirO, "mkdir">>, <<DirO \o <<Sn>>, "mkdir">>, <<DirS, "list">> }

\* Most faults injected into one run.
MaxFaults == 1

Parent(p) == SubSeq(p, 1, Len(p) - 1)
Basename(p) == p[Len(p)]
IsPrefix(a, b) == Len(a) <= Len(b) /\ SubSeq(b, 1, Len(a)) = a
Prefixes(p) == {SubSeq(p, 1, n) : n \in 1..Len(p)}

\* os.path.exists, isfile, isdir
Exists(f, p) == p \in DOMAIN f /\ <<p, "missing">> \notin faults
IsFile(f, p) == Exists(f, p) /\ f[p].kind = "file"
IsDir(f, p) == Exists(f, p) /\ f[p].kind = "dir"

\* str.endswith
EndsWith(name, suffix) ==
    /\ Len(suffix) <= Len(name)
    /\ SubSeq(name, Len(name) - Len(suffix) + 1, Len(name)) = suffix

\* main.py:119
Extensions ==
    { <<".", "h", "t", "m", "l">>, <<".", "h", "t", "m">>, <<".", "p", "h", "p">>,
      <<".", "a", "s", "p">>, <<".", "a", "s", "p", "x">>, <<".", "j", "s", "p">>,
      <<".", "t", "p", "l">> }

\* Faulty variant: the extension test of line 119 left out.
HasExtension_Any(name) == TRUE

HasExtension(name) == \E e \in Extensions : EndsWith(name, e)

\* os.makedirs(p) and os.makedirs(p, exist_ok=True) where p is not yet a
\* directory: every missing component is created, and the call raises when a
\* component exists and is no directory or cannot be created.
MakedirsOk(f, p) ==
    \A q \in Prefixes(p) :
        IF q \in DOMAIN f THEN f[q].kind = "dir" ELSE <<q, "mkdir">> \notin faults

Makedirs(f, p) ==
    [q \in DOMAIN f \cup Prefixes(p) |-> IF q \in DOMAIN f THEN f[q] ELSE DirNode]

\* chardet.detect(rawdata)['encoding'] on the texts of this model, all ASCII:
\* None for an empty file, 'ascii' otherwise.
Detect(t) == IF t = <<>> THEN NoEnc ELSE "ascii"

-----------------------------------------------------------------------------
(* process_file, main.py:53-96. *)

\* How opening file_path for reading ends.
ReadOutcome(f, file_path) ==
    IF ~Exists(f, file_path) THEN "notfound"
    ELSE IF f[file_path].kind # "file" \/ <<file_path, "read">> \in faults THEN "error"
    ELSE "ok"

\* How opening output_path for writing and writing it ends.
WriteOutcome(f, output_path) ==
    IF Parent(output_path) \notin DOMAIN f THEN "notfound"
    ELSE IF f[Parent(output_path)].kind # "dir" THEN "error"
    ELSE IF output_path \in DOMAIN f /\ f[output_path].kind # "file" THEN "error"
    ELSE IF <<output_path, "open_w">> \in faults THEN "error"
    ELSE IF <<output_path, "write">> \in faults THEN "truncated"
    ELSE "ok"

\* main.py:83-86
OutputPath(file_path, odir) ==
    IF odir # NoDir THEN odir \o <<Basename(file_path)>> ELSE file_path

\* The encoding lines 65-75 settle on for a readable file.
ResolvedEncoding(f, file_path) ==
    IF encoding # NoEnc THEN encoding
    ELSE IF Detect(f[file_path].text) = NoEnc THEN "utf-8"
    ELSE Detect(f[file_path].text)

\* The records lines 65-75 log for a readable file.
DetectionLog(f, file_path) ==
    IF encoding # NoEnc THEN {}
    ELSE IF Detect(f[file_path].text) = NoEnc
         THEN {<<"WARNING", "no encoding detected", file_path>>}
         ELSE {<<"INFO", "detected encoding", file_path>>}

\* One call process_file(file_path, specific_string, odir, encoding) on file
\* system f: the file system, the log records and the call's result after it.
ProcessFile(f, file_path, odir) ==
    LET rd == ReadOutcome(f, file_path)
        enc == ResolvedEncoding(f, file_path)
        sanitized_content == remove_html_comments(f[file_path].text, specific_string)
        output_path == OutputPath(file_path, odir)
        wr == WriteOutcome(f, output_path)
        Put(t) == [q \in DOMAIN f \cup {output_path} |->
                      IF q = output_path THEN FileNode(t) ELSE f[q]]
        Res(st, w) == [src |-> file_path, status |-> st,
                       dest |-> output_path, wrote |-> w]
    IN  IF rd = "notfound"
        THEN [fs |-> f, log |-> {<<"ERROR", "file not found", file_path>>},
              result |-> Res("notfound", FALSE)]
        ELSE IF rd = "error"
        THEN [fs |-> f, log |-> {<<"ERROR", "error processing file", file_path>>},
              result |-> Res("error", FALSE)]
        ELSE IF enc = "bogus"
        THEN [fs |-> f,
              log |-> DetectionLog(f, file_path)
                      \cup {<<"ERROR", "error processing file", file_path>>},
              result |-> Res("error", FALSE)]
        ELSE IF wr = "notfound"
        THEN [fs |-> f,
              log |-> DetectionLog(f, file_path)
                      \cup {<<"ERROR", "file not found", file_path>>},
              result |-> Res("notfound", FALSE)]
        ELSE IF wr = "error"
        THEN [fs |-> f,
              log |-> DetectionLog(f, file_path)
                      \cup {<<"ERROR", "error processing file", file_path>>},
              result |-> Res("error", FALSE)]
        ELSE IF wr = "truncated"
        THEN [fs |-> Put(<<>>),
              log |-> DetectionLog(f, file_path)
                      \cup {<<"ERROR", "error processing file", file_path>>},
              result |-> Res("error", TRUE)]
        ELSE [fs |-> Put(sanitized_content),
              log |-> DetectionLog(f, file_path)
                      \cup {<<"INFO", "processed file", file_path>>},
              result |-> Res("ok", TRUE)]

-----------------------------------------------------------------------------
(* main, main.py:130-162, and process_directory, main.py:99-126. *)

Paths == {DirD, FileA, FileB, FileE, <<Xn>>, <<Fn>>}
OutputDirs == {NoDir, DirO, DirD, DirS, FileB}
Encodings == {NoEnc, "latin-1", "bogus"}

InitMain ==
    /\ content = <<>> /\ out = <<>> /\ out2 = <<>> /\ phase = "off"
    /\ specific_string \in {<<>>, <<"a">>}
    /\ fs = InitialFs
    /\ fs0 = InitialFs
    /\ faults \in {F \in SUBSET FaultSites : Cardinality(F) <= MaxFaults}
    /\ path \in Paths
    /\ recursive \in BOOLEAN
    /\ output_dir \in OutputDirs
    /\ encoding \in Encodings
    /\ pc = "main"
    /\ exit_code = 0
    /\ pending = <<>>
    /\ root = NoDir
    /\ output_subdir = NoDir
    /\ todo = {}
    /\ subdirs = {}
    /\ log = {}
    /\ results = {}

\* The values a run of main holds while remove_html_comments is checked alone.
MainOff ==
    /\ fs = <<>> /\ fs0 = <<>> /\ faults = {}
    /\ path = NoDir /\ recursive = FALSE /\ output_dir = NoDir /\ encoding = NoEnc
    /\ pc = "off" /\ exit_code = 0
    /\ pending = <<>> /\ root = NoDir /\ output_subdir = NoDir
    /\ todo = {} /\ subdirs = {}
    /\ log = {} /\ results = {}

args == <<specific_string, path, recursive, output_dir, encoding, faults, fs0>>
walkvars == <<pending, root, output_subdir, todo, subdirs>>

Exit(code) == pc' = "exit" /\ exit_code' = code

\* Faulty variant: the output directory created before the input path is validated.
MainValidate_CreateFirst ==
    /\ pc = "main"
    /\ IF output_dir # NoDir /\ ~Exists(fs, output_dir) /\ ~MakedirsOk(fs, output_dir)
       THEN /\ log' = log \cup {<<"ERROR", "error creating output directory", output_dir>>}
            /\ Exit(1)
            /\ UNCHANGED fs
       ELSE /\ fs' = IF output_dir # NoDir /\ ~Exists(fs, output_dir)
                     THEN Makedirs(fs, output_dir) ELSE fs
            /\ IF ~Exists(fs, path)
               THEN /\ log' = log \cup {<<"ERROR", "path does not exist", path>>}
                    /\ Exit(1)
               ELSE /\ pc' = "dispatch"
                    /\ UNCHANGED <<log, exit_code>>
    /\ UNCHANGED <<svars, args, walkvars, results>>

\* Lines 143-154: the input path must exist, and a missing output directory
\* is created.
MainValidate ==
    /\ pc = "main"
    /\ IF ~Exists(fs, path)
       THEN /\ log' = log \cup {<<"ERROR", "path does not exist", path>>}
            /\ Exit(1)
            /\ UNCHANGED fs
       ELSE IF output_dir # NoDir /\ ~Exists(fs, output_dir)
       THEN IF MakedirsOk(fs, output_dir)
            THEN /\ fs' = Makedirs(fs, output_dir)
                 /\ log' = log \cup {<<"INFO", "created output directory", output_dir>>}
                 /\ pc' = "dispatch"
                 /\ UNCHANGED exit_code
            ELSE /\ log' = log \cup {<<"ERROR", "error creating output directory", output_dir>>}
                 /\ Exit(1)
                 /\ UNCHANGED fs
       ELSE /\ pc' = "dispatch"
            /\ UNCHANGED <<fs, log, exit_code>>
    /\ UNCHANGED <<svars, args, walkvars, results>>

\* Faulty variant: an invalid path type logged without sys.exit(1).
MainDispatch_NoExitStatus ==
    /\ pc = "dispatch"
    /\ IF IsFile(fs, path)
       THEN LET r == ProcessFile(fs, path, output_dir)
            IN  /\ fs' = r.fs
                /\ log' = log \cup r.log
                /\ results' = results \cup {r.result}
                /\ Exit(0)
                /\ UNCHANGED pending
       ELSE IF IsDir(fs, path)
       THEN /\ pc' = "walk"
            /\ pending' = <<path>>
            /\ UNCHANGED <<fs, log, results, exit_code>>
       ELSE /\ log' = log \cup {<<"ERROR", "invalid path type", path>>}
            /\ Exit(0)
            /\ UNCHANGED <<fs, results, pending>>
    /\ UNCHANGED <<svars, args, root, output_subdir, todo, subdirs>>

\* Lines 156-162.
MainDispatch ==
    /\ pc = "dispatch"
    /\ IF IsFile(fs, path)
       THEN LET r == ProcessFile(fs, path, output_dir)
            IN  /\ fs' = r.fs
                /\ log' = log \cup r.log
                /\ results' = results \cup {r.result}
                /\ Exit(0)
                /\ UNCHANGED pending
       ELSE IF IsDir(fs, path)
       THEN /\ pc' = "walk"
            /\ pending' = <<path>>
            /\ UNCHANGED <<fs, log, results, exit_code>>
       ELSE /\ log' = log \cup {<<"ERROR", "invalid path type", path>>}
            /\ Exit(1)
            /\ UNCHANGED <<fs, results, pending>>
    /\ UNCHANGED <<svars, args, root, output_subdir, todo, subdirs>>

Children(f, r) == {p \in DOMAIN f : Len(p) = Len(r) + 1 /\ Parent(p) = r}

\* Faulty variant: the output directory itself at every level, nothing mirrored.
OutputSubdir_Flat(r) == output_dir

\* os.path.join(output_dir, os.path.relpath(root, dir_path)), normalised.
OutputSubdir(r) ==
    IF output_dir # NoDir THEN output_dir \o SubSeq(r, Len(path) + 1, Len(r)) ELSE NoDir

\* Lines 111-116: os.walk yields the next directory with its listing, and the
\* mirrored output subdirectory is created.  A directory that cannot be listed
\* is skipped by os.walk; a makedirs that raises ends process_directory in its
\* handler at lines 125-126, and main returns.
WalkDir ==
    /\ pc = "walk"
    /\ pending # <<>>
    /\ LET r == Head(pending)
           osub == OutputSubdir(r)
       IN  IF ~IsDir(fs, r) \/ <<r, "list">> \in faults
           THEN /\ pending' = Tail(pending)
                /\ UNCHANGED <<fs, log, pc, exit_code, root, output_subdir, todo, subdirs>>
           ELSE IF output_dir # NoDir /\ ~MakedirsOk(fs, osub)
           THEN /\ log' = log \cup {<<"ERROR", "error processing directory", path>>}
                /\ Exit(0)
                /\ UNCHANGED <<fs, pending, root, output_subdir, todo, subdirs>>
           ELSE /\ fs' = IF output_dir # NoDir THEN Makedirs(fs, osub) ELSE fs
                /\ root' = r
                /\ output_subdir' = osub
                /\ todo' = {Basename(p) : p \in {c \in Children(fs, r) : fs[c].kind # "dir"}}
                /\ subdirs' = {c \in Children(fs, r) : fs[c].kind = "dir"}
                /\ pending' = Tail(pending)
                /\ pc' = "files"
                /\ UNCHANGED <<log, exit_code>>
    /\ UNCHANGED <<svars, args, results>>

\* Faulty variant: process_file lets its exception out, and the handler of
\* process_directory ends the walk at the first file that fails.
WalkFile_StopOnError ==
    /\ pc = "files"
    /\ \E file \in todo :
        /\ todo' = todo \ {file}
        /\ IF HasExtension(file)
           THEN LET file_path == root \o <<file>>
                    r == ProcessFile(fs, file_path, output_subdir)
                IN  /\ fs' = r.fs
                    /\ log' = log \cup r.log
                    /\ results' = results \cup {r.result}
                    /\ IF r.result.status = "ok"
                       THEN UNCHANGED <<pc, exit_code>>
                       ELSE Exit(0)
           ELSE UNCHANGED <<fs, log, results, pc, exit_code>>
    /\ UNCHANGED <<svars, args, pending, root, output_subdir, subdirs>>

\* Lines 118-121: one iteration of the loop over files, in listing order.
WalkFile ==
    /\ pc = "files"
    /\ \E file \in todo :
        /\ todo' = todo \ {file}
        /\ IF HasExtension(file)
           THEN LET file_path == root \o <<file>>
                    r == ProcessFile(fs, file_path, output_subdir)
                IN  /\ fs' = r.fs
                    /\ log' = log \cup r.log
                    /\ results' = results \cup {r.result}
           ELSE UNCHANGED <<fs, log, results>>
    /\ UNCHANGED <<svars, args, pc, exit_code, pending, root, output_subdir, subdirs>>

Orders(S) == {q \in [1..Cardinality(S) -> S] : \A i, j \in DOMAIN q : q[i] = q[j] => i = j}

\* Lines 123-124 and the generator's resumption: without --recursive the walk
\* stops after the top level; otherwise os.walk descends into the listed
\* subdirectories, depth first.
WalkEndDir ==
    /\ pc = "files"
    /\ todo = {}
    /\ IF ~recursive
       THEN /\ Exit(0)
            /\ UNCHANGED pending
       ELSE /\ \E q \in Orders(subdirs) : pending' = q \o pending
            /\ pc' = "walk"
            /\ UNCHANGED exit_code
    /\ UNCHANGED <<svars, args, fs, log, root, output_subdir, todo, subdirs, results>>

\* os.walk is exhausted: process_directory returns and main ends.
WalkDone ==
    /\ pc = "walk"
    /\ pending = <<>>
    /\ Exit(0)
    /\ UNCHANGED <<svars, args, fs, log, walkvars, results>>

Next == MainValidate \/ MainDispatch \/ WalkDir \/ WalkFile \/ WalkEndDir \/ WalkDone

Spec == InitMain /\ [][Next]_vars

-----------------------------------------------------------------------------
(* Inputs of the pure-function checks. *)

Tokens == {OPEN, CLOSE, <<"<", "!", "-">>, <<"-">>, <<">">>, <<"a">>}

RECURSIVE Flatten(_)
Flatten(ts) == IF ts = <<>> THEN <<>> ELSE Head(ts) \o Flatten(Tail(ts))

Contents == {Flatten(ts) : ts \in UNION {[1..n -> Tokens] : n \in 0..MaxTokens}}

-----------------------------------------------------------------------------
(* Unfiltered stripping: one content, stripped once and then again. *)

InitStrip ==
    /\ content \in Contents
    /\ specific_string = <<>>
    /\ out = <<>>
    /\ out2 = <<>>
    /\ phase = "input"
    /\ MainOff

Strip ==
    /\ phase = "input"
    /\ out' = remove_html_comments(content, specific_string)
    /\ phase' = "stripped"
    /\ UNCHANGED <<content, specific_string, out2, dvars>>

Restrip ==
    /\ phase = "stripped"
    /\ out2' = remove_html_comments(out, specific_string)
    /\ phase' = "restripped"
    /\ UNCHANGED <<content, specific_string, out, dvars>>

NextStrip == Strip \/ Restrip

SpecStrip == InitStrip /\ [][NextStrip]_vars

-----------------------------------------------------------------------------
(* Filtered stripping: one content and a non-empty specific_string. *)

Filters == {<<"a">>, <<"-", "-">>, OPEN \o <<"a">>}

InitFilter ==
    /\ content \in Contents
    /\ specific_string \in Filters
    /\ out = <<>>
    /\ out2 = <<>>
    /\ phase = "input"
    /\ MainOff

SpecFilter == InitFilter /\ [][Strip]_vars

-----------------------------------------------------------------------------
(* Vocabulary of the properties: comment spans as the specification defines *)
(* them, from an opening marker to the nearest following closing marker,    *)
(* found left to right without overlap.                                     *)

RECURSIVE CommentSpans(_, _)
CommentSpans(s, pos) ==
    IF pos > Len(s) THEN {}
    ELSE LET q == IF OccursAt(s, OPEN, pos) THEN Find(s, CLOSE, pos + 4) ELSE 0
         IN  IF q = 0 THEN CommentSpans(s, pos + 1)
             ELSE {<<pos, q + 3>>} \cup CommentSpans(s, q + 3)

SpanText(s, sp) == Slice(s, sp[1], sp[2] - 1)

\* content = A \o OPEN \o C \o CLOSE \o B with the markers at i and j.
PartA(i) == Slice(content, 1, i - 1)
PartC(i, j) == Slice(content, i + 4, j - 1)
PartB(j) == Slice(content, j + 3, Len(content))

IsSplit(i, j) ==
    /\ OccursAt(content, OPEN, i)
    /\ j >= i + 4
    /\ OccursAt(content, CLOSE, j)
    /\ ~Contains(PartC(i, j), CLOSE)

Positions == 1..Len(content)
Opens == {i \in Positions : OccursAt(content, OPEN, i)}
Closes == {j \in Positions : OccursAt(content, CLOSE, j)}

-----------------------------------------------------------------------------
(* C1: with a filter F, every comment span that does not contain F is left  *)
(* in the output with its markers and inner text intact: no match that the  *)
(* substitution deletes touches any of its characters.                      *)
C1_UnfilteredSpansIntact ==
    (phase = "stripped" /\ specific_string # <<>>) =>
        \A sp \in CommentSpans(content, 1) :
            ~Contains(SpanText(content, sp), specific_string) =>
                \A m \in Matches(content, specific_string, 1) :
                    m[2] <= sp[1] \/ sp[2] <= m[1]

(* C10: with a filter F, every comment span whose text from the opening     *)
(* marker to the closing marker inclusive contains F is removed: each of    *)
(* its characters lies in a match the substitution deletes.                 *)
C10_EveryFilteredSpanRemoved ==
    (phase = "stripped" /\ specific_string # <<>>) =>
        \A sp \in CommentSpans(content, 1) :
            Contains(SpanText(content, sp), specific_string) =>
                \E m \in Matches(content, specific_string, 1) :
                    m[1] <= sp[1] /\ sp[2] <= m[2]

(* C2 as stated: for all A, B and C without a closing marker, stripping     *)
(* A <!-- C --> B with no filter gives exactly A B.                         *)
C2_AnyContext ==
    (phase = "stripped" /\ specific_string = <<>>) =>
        \A i \in Opens, j \in Closes :
            IsSplit(i, j) => out = PartA(i) \o PartB(j)

(* C2 amended: when A holds no opening marker and C no closing marker,      *)
(* stripping A <!-- C --> B with no filter gives A followed by B stripped,  *)
(* which is A B when B holds no opening marker either.                      *)
C2_MarkerFreePrefix ==
    (phase = "stripped" /\ specific_string = <<>>) =>
        \A i \in Opens, j \in Closes :
            (IsSplit(i, j) /\ ~Contains(PartA(i), OPEN)) =>
                /\ out = PartA(i) \o remove_html_comments(PartB(j), <<>>)
                /\ ~Contains(PartB(j), OPEN) => out = PartA(i) \o PartB(j)

\* A comment with text inside it, text before it and text after it, stripped.
C2_Witness ==
    /\ phase = "stripped"
    /\ specific_string = <<>>
    /\ \E i \in Opens, j \in Closes :
        /\ IsSplit(i, j)
        /\ ~Contains(PartA(i), OPEN)
        /\ PartA(i) # <<>> /\ PartC(i, j) # <<>> /\ PartB(j) # <<>>
        /\ ~Contains(PartB(j), OPEN)
        /\ out = PartA(i) \o PartB(j)

(* C3: stripping with no filter is idempotent: a second pass over the       *)
(* output of the first changes nothing.                                     *)
C3_Idempotent ==
    (phase = "restripped" /\ specific_string = <<>>) => out2 = out

\* content = OPEN a CLOSE M OPEN b CLOSE with the inner markers at j and k.
IsPair(j, k) ==
    /\ OccursAt(content, OPEN, 1)
    /\ j >= 5
    /\ OccursAt(content, CLOSE, j)
    /\ k >= j + 3
    /\ OccursAt(content, OPEN, k)
    /\ Len(content) - 2 >= k + 4
    /\ OccursAt(content, CLOSE, Len(content) - 2)
    /\ ~Contains(Slice(content, 5, j - 1), CLOSE)
    /\ ~Contains(Slice(content, k + 4, Len(content) - 3), CLOSE)
    /\ ~Contains(Slice(content, j + 3, k - 1), OPEN)
    /\ ~Contains(Slice(content, j + 3, k - 1), CLOSE)

(* C4: with no filter two comments are two spans: for inner texts a and b   *)
(* without a closing marker and a text M without markers, stripping         *)
(* <!--a--> M <!--b--> gives exactly M.                                     *)
C4_NonCoalescing ==
    (phase = "stripped" /\ specific_string = <<>>) =>
        \A j \in Closes, k \in Opens :
            IsPair(j, k) => out = Slice(content, j + 3, k - 1)

\* Two comments, the first with inner text, around a non-empty middle text.
C4_Witness ==
    /\ phase = "stripped"
    /\ specific_string = <<>>
    /\ \E j \in Closes, k \in Opens :
        /\ IsPair(j, k)
        /\ j > 5
        /\ k > j + 3
        /\ out = Slice(content, j + 3, k - 1)

-----------------------------------------------------------------------------
(* Vocabulary of the properties about a run of main. *)

DirectoryRun == pc # "off" /\ IsDir(fs0, path)
Finished == pc = "exit"

\* The name ends in one of .html, .htm, .php, .asp, .aspx, .jsp, .tpl.
RecognisedName(name) == \E e \in Extensions : EndsWith(name, e)

FilesOf(f) == {p \in DOMAIN f : f[p].kind = "file"}
Unchanged(p) == p \in DOMAIN fs /\ fs[p] = fs0[p]

\* Files below the top-level directory when main started.
TreeFiles == {p \in FilesOf(fs0) : IsPrefix(path, p) /\ Len(p) > Len(path)}

\* The files main was pointed at: the input file, or every file below the
\* input directory, as they were when main started.
InputFiles == {p \in FilesOf(fs0) : IsPrefix(path, p)}

\* The directory that holds the input.
InputDir == IF IsDir(fs0, path) THEN path ELSE Parent(path)

\* The files a directory run is to process: a recognised extension, and
\* directly in the top-level directory unless the run is recursive.
InScope(p) ==
    /\ p \in TreeFiles
    /\ RecognisedName(Basename(p))
    /\ recursive \/ Parent(p) = path

\* The destination the specification gives a processed file.
ExpectedDest(src) ==
    IF output_dir = NoDir THEN src
    ELSE IF IsDir(fs0, path)
         THEN output_dir \o SubSeq(src, Len(path) + 1, Len(src))
         ELSE output_dir \o <<Basename(src)>>

\* The output directory was asked for, was missing and could not be created.
OutputDirFailed ==
    /\ output_dir # NoDir
    /\ ~Exists(fs0, output_dir)
    /\ ~MakedirsOk(fs0, output_dir)

DirectoryError == <<"ERROR", "error processing directory", path>> \in log

Failed(r) == r.status # "ok"
ErrorLogged(p) == \E e \in log : e[1] = "ERROR" /\ e[3] = p

-----------------------------------------------------------------------------
(* C5 as stated: in a directory run only files with a recognised extension  *)
(* are processed, only top-level ones unless recursive, and every other     *)
(* file of the tree is unchanged.                                           *)
C5_ScopeAnyOutput ==
    DirectoryRun =>
        /\ \A r \in results :
            /\ RecognisedName(Basename(r.src))
            /\ ~recursive => Parent(r.src) = path
        /\ \A p \in TreeFiles : ~InScope(p) => Unchanged(p)

(* C5 amended: in a directory run only files with a recognised extension    *)
(* are processed, only top-level ones unless recursive; every file of the   *)
(* tree without a recognised extension is unchanged, and so is every other  *)
(* out-of-scope file unless the output directory lies below the top-level   *)
(* directory.                                                               *)
C5_Scope ==
    DirectoryRun =>
        /\ \A r \in results :
            /\ RecognisedName(Basename(r.src))
            /\ ~recursive => Parent(r.src) = path
        /\ \A p \in TreeFiles :
            /\ ~RecognisedName(Basename(p)) => Unchanged(p)
            /\ (~InScope(p) /\ (output_dir = path \/ ~IsPrefix(path, output_dir)))
                   => Unchanged(p)

\* A finished non-recursive run that rewrote d/a.html in place and left
\* d/b.txt and d/s/a.html as they were.
C5_Witness ==
    /\ Finished /\ path = DirD /\ ~recursive /\ output_dir = NoDir
    /\ \E r \in results : r.src = FileA /\ r.status = "ok"
    /\ fs[FileA] # fs0[FileA]
    /\ Unchanged(FileB) /\ Unchanged(FileSA)

C7_FatalBeforeAnyEffect ==
    (pc \notin {"off", "main"} /\ (~Exists(fs0, path) \/ OutputDirFailed)) =>
        /\ pc = "exit"
        /\ exit_code = 1
        /\ results = {}
        /\ \A p \in FilesOf(fs0) : Unchanged(p)
        /\ FilesOf(fs) = FilesOf(fs0)
        /\ ~Exists(fs0, path) => fs = fs0

\* main has ended on a missing input path although an output directory that
\* could have been created was asked for.
C7_Witness ==
    /\ Finished /\ path = <<Xn>> /\ output_dir = DirO /\ faults = {}
    /\ exit_code = 1 /\ DirO \notin DOMAIN fs

(* C8 as stated: in a directory run that passed validation and that no      *)
(* directory-level error cut short, every in-scope file is processed        *)
(* whatever happened to the others, every failure is logged, and a failed   *)
(* file causes no write.                                                    *)
C8_FailedFileNeverWritten ==
    DirectoryRun =>
        /\ (Finished /\ exit_code = 0 /\ ~DirectoryError) =>
               \A p \in TreeFiles :
                   (InScope(p) /\ \A q \in Prefixes(p) : <<q, "list">> \notin faults)
                       => \E r \in results : r.src = p
        /\ \A r \in results : Failed(r) => ErrorLogged(r.src) /\ ~r.wrote

(* C8 amended: in a directory run that passed validation and that no        *)
(* directory-level error cut short, every in-scope file is processed        *)
(* whatever happened to the others and every failure is logged; a file that *)
(* fails before its destination is opened for writing causes no write, and  *)
(* a failure while writing leaves the destination truncated.                *)
C8_ErrorIsolation ==
    DirectoryRun =>
        /\ (Finished /\ exit_code = 0 /\ ~DirectoryError) =>
               \A p \in TreeFiles :
                   (InScope(p) /\ \A q \in Prefixes(p) : <<q, "list">> \notin faults)
                       => \E r \in results : r.src = p
        /\ \A r \in results :
            Failed(r) =>
                /\ ErrorLogged(r.src)
                /\ r.wrote => <<r.dest, "write">> \in faults
                /\ (\A r2 \in results : r2.dest = r.dest => ~r2.wrote)
                       => (r.dest \in DOMAIN fs0 => Unchanged(r.dest))
                          /\ (r.dest \notin DOMAIN fs0 => r.dest \notin DOMAIN fs)

\* A finished run in which one file failed and was logged, and two others,
\* one of them in a subdirectory, were still processed.
C8_Witness ==
    /\ Finished /\ path = DirD /\ recursive /\ ~DirectoryError
    /\ \E r \in results : r.src = FileA /\ Failed(r) /\ ~r.wrote /\ ErrorLogged(FileA)
    /\ \E r \in results : r.src = FileC /\ r.status = "ok"
    /\ \E r \in results : r.src = FileSA /\ r.status = "ok"

(* C9: main exits with status 1 when the input path does not exist, when    *)
(* the missing output directory cannot be created or when the path is       *)
(* neither a file nor a directory, and with status 0 in every other run,    *)
(* whatever per-file or directory-level errors occurred.                    *)
C9_ExitStatus ==
    Finished =>
        exit_code = IF \/ ~Exists(fs0, path)
                       \/ OutputDirFailed
                       \/ ~(IsFile(fs0, path) \/ IsDir(fs0, path))
                    THEN 1 ELSE 0

\* A run that ended with status 0 although a file failed and a
\* directory-level error stopped the walk.
C9_Witness ==
    /\ Finished /\ exit_code = 0
    /\ DirectoryError
    /\ \E r \in results : Failed(r)

=============================================================================
